---- MODULE Spec2Model ----
(***************************************************************************)
(* Preference memory of one UserProfile (user_profile/user_profile.py):    *)
(* the nested mapping aspect -> value -> {confidence, evidence, last_seen} *)
(* and its two mutators, ingest_extracted_preferences and apply_actions.   *)
(*                                                                         *)
(* Confidences are exact rationals <<numerator, denominator>> in lowest    *)
(* terms; timestamps are the ordinal of the call that wrote them.          *)
(***************************************************************************)
EXTENDS Integers, Sequences, FiniteSets, TLC

VARIABLES
    memory,             \* self.memory: ordered aspect buckets of ordered entries
    clock,              \* number of calls made so far; a call's `now` is clock + 1
    STRENGTH_TO_CONF,   \* config.confidence.STRENGTH_TO_CONF, fixed at start
    result              \* how the last call ended: which call, the error it raised,
                        \* and the branch its last processed record took

vars == <<memory, clock, STRENGTH_TO_CONF, result>>

\* Number of calls of ingest_extracted_preferences / apply_actions in a run.
MaxCalls == 2

-----------------------------------------------------------------------------
\* Exact rational arithmetic for the confidence values.

RECURSIVE Gcd(_, _)
Gcd(a, b) == IF b = 0 THEN a ELSE Gcd(b, a % b)

Norm(n, d) == LET g == Gcd(n, d) IN <<n \div g, d \div g>>

RAdd(p, q) == Norm(p[1] * q[2] + q[1] * p[2], p[2] * q[2])
RMul(p, q) == Norm(p[1] * q[1], p[2] * q[2])
RDivInt(p, k) == Norm(p[1], p[2] * k)
RInt(k) == <<k, 1>>
RLeq(p, q) == p[1] * q[2] <= q[1] * p[2]
RLess(p, q) == p[1] * q[2] < q[1] * p[2]
\* Python's max(a, b): the first argument unless the second is strictly larger.
RMax(p, q) == IF RLess(p, q) THEN q ELSE p
RMin(p, q) == IF RLess(q, p) THEN q ELSE p

-----------------------------------------------------------------------------
\* Configuration imported by user_profile.py.

\* config.aspects.ASPECTS: the aspect vocabulary.
ASPECTS == {"cuisine", "price", "dietary"}

\* The literals of apply_actions.
DEFAULT_CONF == <<3, 5>>       \* 0.6, the fallback of STRENGTH_TO_CONF.get
WEAKEN_FACTOR == <<3, 5>>      \* 0.6
WEAKEN_FLOOR == <<1, 20>>      \* 0.05

\* The strength maps the configuration may hold: weak < medium < strong, all
\* in (0, 1]; medium is 0.6 in one and 0.5 in the other.
StrengthMaps ==
    { [weak |-> <<3, 10>>, medium |-> m, strong |-> <<9, 10>>] :
        m \in {<<3, 5>>, <<1, 2>>} }

\* dict key test and lookup on STRENGTH_TO_CONF (a record keyed by label).
InMap(conf, label) == label \in DOMAIN conf

-----------------------------------------------------------------------------
\* Strings.  None stands for a field that act.get() does not find.

None == "<None>"

\* str.lower() on the strings the model feeds in.
Lower(s) ==
    CASE s = "Italian" -> "italian"
      [] s = "THAI" -> "thai"
      [] OTHER -> s

\* Python truthiness of a value that is None or a string.
Falsy(x) == x = None \/ x = ""

-----------------------------------------------------------------------------
\* The nested dict self.memory, insertion-ordered at both levels:
\* a sequence of [aspect, values], values a sequence of entries
\* [value, confidence, evidence, last_seen].

AspectKeys(m) == { m[i].aspect : i \in DOMAIN m }
AspectIdx(m, a) == CHOOSE i \in DOMAIN m : m[i].aspect = a
Bucket(m, a) == m[AspectIdx(m, a)].values
ValueKeys(b) == { b[i].value : i \in DOMAIN b }
ValueIdx(b, v) == CHOOSE i \in DOMAIN b : b[i].value = v

\* value in self.memory[aspect]
HasValue(m, a, v) == a \in AspectKeys(m) /\ v \in ValueKeys(Bucket(m, a))
\* self.memory[aspect][value]
EntryOf(m, a, v) == Bucket(m, a)[ValueIdx(Bucket(m, a), v)]

\* self.memory.setdefault(aspect, {})
SetDefault(m, a) ==
    IF a \in AspectKeys(m) THEN m ELSE Append(m, [aspect |-> a, values |-> <<>>])

\* self.memory[aspect][value] = {...}: overwrite in place, or insert last.
PutEntry(m, a, v, c, e, t) ==
    LET b == Bucket(m, a)
        ent == [value |-> v, confidence |-> c, evidence |-> e, last_seen |-> t]
        nb == IF v \in ValueKeys(b)
              THEN [b EXCEPT ![ValueIdx(b, v)] = ent]
              ELSE Append(b, ent)
    IN [m EXCEPT ![AspectIdx(m, a)].values = nb]

\* Mutant: the del empties the aspect's mapping instead of removing one key.
DelEntry_bucket(m, a, v) == [m EXCEPT ![AspectIdx(m, a)].values = <<>>]

\* del self.memory[aspect][value]
DelEntry(m, a, v) ==
    LET b == Bucket(m, a)
        k == ValueIdx(b, v)
        nb == [i \in 1..(Len(b) - 1) |-> IF i < k THEN b[i] ELSE b[i + 1]]
    IN [m EXCEPT ![AspectIdx(m, a)].values = nb]

-----------------------------------------------------------------------------
\* What a call, or one record of it, leaves behind.
Out(m, err, br) == [memory |-> m, error |-> err, branch |-> br]

\* act.get(key)
Get(act, key) == IF key \in DOMAIN act THEN act[key] ELSE None

-----------------------------------------------------------------------------
\* ingest_extracted_preferences

\* Mutant: an existing entry keeps accumulating evidence.
IngestOne_accumulate(m, pref, now, conf) ==
    LET aspect == pref.aspect
        value == Lower(pref.value)
        strength == pref.strength
        m1 == SetDefault(m, aspect)
        e == IF HasValue(m1, aspect, value)
             THEN EntryOf(m1, aspect, value).evidence + 1 ELSE 1
    IN IF InMap(conf, strength)
       THEN Out(PutEntry(m1, aspect, value, conf[strength], e, now), "none", "ingest")
       ELSE Out(m1, "KeyError", "ingest")

\* The body of the inner loop for one item.  pref["aspect"], pref["value"]
\* and pref["strength"] are read directly; STRENGTH_TO_CONF[strength] is
\* evaluated after the setdefault and raises KeyError on an unknown label.
IngestOne(m, pref, now, conf) ==
    LET aspect == pref.aspect
        value == Lower(pref.value)
        strength == pref.strength
        m1 == SetDefault(m, aspect)
    IN IF InMap(conf, strength)
       THEN Out(PutEntry(m1, aspect, value, conf[strength], 1, now), "none", "ingest")
       ELSE Out(m1, "KeyError", "ingest")

RECURSIVE IngestFrom(_, _, _, _, _)
IngestFrom(out, prefs, i, now, conf) ==
    IF i > Len(prefs) \/ out.error # "none"
    THEN out
    ELSE IngestFrom(IngestOne(out.memory, prefs[i], now, conf), prefs, i + 1, now, conf)

\* for group in ["hard_preferences", "soft_preferences"]: for pref in ...
Ingest(m, extracted_prefs, now, conf) ==
    IngestFrom(Out(m, "none", "empty"),
               extracted_prefs.hard_preferences \o extracted_prefs.soft_preferences,
               1, now, conf)

-----------------------------------------------------------------------------
\* apply_actions

\* Mutant: act.get("strength") without the "medium" default.
ResolveStrength_nodefault(conf, act) ==
    LET label == Get(act, "strength")
    IN IF InMap(conf, label) THEN conf[label] ELSE DEFAULT_CONF

\* STRENGTH_TO_CONF.get(act.get("strength", "medium"), 0.6)
ResolveStrength(conf, act) ==
    LET label == IF "strength" \in DOMAIN act THEN act.strength ELSE "medium"
    IN IF InMap(conf, label) THEN conf[label] ELSE DEFAULT_CONF

\* The add branch: a fresh entry with the resolved strength.
AddEntry(m, aspect, value, strength, now) ==
    PutEntry(m, aspect, value, strength, 1, now)

\* Mutant: the division by evidence + 1 is missing.
ReinforceConf_sum(c, e, strength) == RAdd(RMul(c, RInt(e)), strength)

\* Mutant: the plain mean of old confidence and strength.
ReinforceConf_unweighted(c, e, strength) == RDivInt(RAdd(c, strength), 2)

\* The reinforce branch: evidence-weighted running mean, evidence + 1.
ReinforceConf(c, e, strength) == RDivInt(RAdd(RMul(c, RInt(e)), strength), e + 1)

\* Mutant: reinforce writes evidence -= 1 instead of evidence += 1.
ReinforceEntry_decrement(m, aspect, value, strength, now) ==
    LET entry == EntryOf(m, aspect, value)
    IN PutEntry(m, aspect, value,
                ReinforceConf(entry.confidence, entry.evidence, strength),
                entry.evidence - 1, now)

ReinforceEntry(m, aspect, value, strength, now) ==
    LET entry == EntryOf(m, aspect, value)
    IN PutEntry(m, aspect, value,
                ReinforceConf(entry.confidence, entry.evidence, strength),
                entry.evidence + 1, now)

\* Mutant: weaken without the factor 0.6.
WeakenConf_nofactor(c) == RMax(WEAKEN_FLOOR, c)

\* Mutant: weaken without the floor of 0.05.
WeakenConf_nofloor(c) == RMul(c, WEAKEN_FACTOR)

\* The weaken branch: max(0.05, confidence * 0.6), evidence kept.
WeakenConf(c) == RMax(WEAKEN_FLOOR, RMul(c, WEAKEN_FACTOR))

WeakenEntry(m, aspect, value, now) ==
    LET entry == EntryOf(m, aspect, value)
    IN PutEntry(m, aspect, value, WeakenConf(entry.confidence), entry.evidence, now)

\* Mutant: the write of last_seen is missing.
Touch_skip(m, aspect, target, now) == m

\* self.memory[aspect][target]["last_seen"] = now
Touch(m, aspect, target, now) ==
    LET entry == EntryOf(m, aspect, target)
    IN PutEntry(m, aspect, target, entry.confidence, entry.evidence, now)

\* Mutant: the target's evidence is assigned (=) instead of added to (+=).
Absorb_assign(m, aspect, value, target) ==
    LET t1 == EntryOf(m, aspect, target)
        v1 == EntryOf(m, aspect, value)
    IN PutEntry(m, aspect, target, RMax(t1.confidence, v1.confidence),
                v1.evidence, t1.last_seen)

\* Lines 85-90: the target takes the larger confidence and the summed evidence.
Absorb(m, aspect, value, target) ==
    LET t1 == EntryOf(m, aspect, target)
        m1 == PutEntry(m, aspect, target,
                       RMax(t1.confidence, EntryOf(m, aspect, value).confidence),
                       t1.evidence, t1.last_seen)
        t2 == EntryOf(m1, aspect, target)
    IN PutEntry(m1, aspect, target, t2.confidence,
                t2.evidence + EntryOf(m1, aspect, value).evidence, t2.last_seen)

\* Mutant: a merge into a target that is not a key creates the target.
MergeBranch_create(m, act, aspect, value, now) ==
    LET target0 == Get(act, "target")
    IN IF Falsy(target0)
       THEN Out(m, "none", "merge_no_target")
       ELSE LET target == Lower(target0)
                m0 == IF HasValue(m, aspect, target) THEN m
                      ELSE PutEntry(m, aspect, target, DEFAULT_CONF, 1, now)
            IN IF HasValue(m0, aspect, value)
               THEN LET m2 == DelEntry(Absorb(m0, aspect, value, target), aspect, value)
                    IN IF HasValue(m2, aspect, target)
                       THEN Out(Touch(m2, aspect, target, now), "none", "merge_absorb")
                       ELSE Out(m2, "KeyError", "merge_absorb")
               ELSE Out(Touch(m0, aspect, target, now), "none", "merge_touch")

\* The merge branch.  After the del, the write of last_seen indexes
\* self.memory[aspect][target] again and raises KeyError if it is gone.
MergeBranch(m, act, aspect, value, now) ==
    LET target0 == Get(act, "target")
    IN IF Falsy(target0)
       THEN Out(m, "none", "merge_no_target")
       ELSE LET target == Lower(target0)
            IN IF ~HasValue(m, aspect, target)
               THEN Out(m, "none", "merge_target_absent")
               ELSE IF HasValue(m, aspect, value)
                    THEN LET m2 == DelEntry(Absorb(m, aspect, value, target), aspect, value)
                         IN IF HasValue(m2, aspect, target)
                            THEN Out(Touch(m2, aspect, target, now), "none", "merge_absorb")
                            ELSE Out(m2, "KeyError", "merge_absorb")
                    ELSE Out(Touch(m, aspect, target, now), "none", "merge_touch")

\* Mutant: the vocabulary check is missing.
InVocabulary_any(aspect) == TRUE

\* Line 45: aspect in ASPECTS.
InVocabulary(aspect) == aspect \in ASPECTS

\* Mutant: add without the "value not in" test, so it overwrites.
AddApplies_always(m, action, aspect, value) == action = "add"

\* The conditions of the add, reinforce and weaken branches (lines 52, 59, 67).
AddApplies(m, action, aspect, value) ==
    action = "add" /\ ~HasValue(m, aspect, value)
ReinforceApplies(m, action, aspect, value) ==
    action = "reinforce" /\ HasValue(m, aspect, value)
WeakenApplies(m, action, aspect, value) ==
    action = "weaken" /\ HasValue(m, aspect, value)

\* The body of the loop for one record.
ApplyOne(m, act, now, conf) ==
    LET action == Get(act, "action")
        aspect == Get(act, "aspect")
        value0 == Get(act, "value")
    IN IF Falsy(action) \/ Falsy(aspect) \/ Falsy(value0)
       THEN Out(m, "none", "skip_falsy")
       ELSE IF ~InVocabulary(aspect)
       THEN Out(m, "none", "skip_aspect")
       ELSE LET value == Lower(value0)
                strength == ResolveStrength(conf, act)
                m1 == SetDefault(m, aspect)
            IN IF AddApplies(m1, action, aspect, value)
               THEN Out(AddEntry(m1, aspect, value, strength, now), "none", "add")
               ELSE IF ReinforceApplies(m1, action, aspect, value)
               THEN Out(ReinforceEntry(m1, aspect, value, strength, now), "none", "reinforce")
               ELSE IF WeakenApplies(m1, action, aspect, value)
               THEN Out(WeakenEntry(m1, aspect, value, now), "none", "weaken")
               ELSE IF action = "merge"
               THEN MergeBranch(m1, act, aspect, value, now)
               ELSE Out(m1, "none", "fallthrough")

\* Mutant: a skipped record ends the loop (break instead of continue).
RECURSIVE ApplyFrom_break(_, _, _, _, _)
ApplyFrom_break(out, actions, i, now, conf) ==
    IF i > Len(actions) \/ out.error # "none"
          \/ out.branch \in {"skip_falsy", "skip_aspect"}
    THEN out
    ELSE ApplyFrom_break(ApplyOne(out.memory, actions[i], now, conf),
                         actions, i + 1, now, conf)

RECURSIVE ApplyFrom(_, _, _, _, _)
ApplyFrom(out, actions, i, now, conf) ==
    IF i > Len(actions) \/ out.error # "none"
    THEN out
    ELSE ApplyFrom(ApplyOne(out.memory, actions[i], now, conf), actions, i + 1, now, conf)

\* for act in actions: ...
Apply(m, actions, now, conf) ==
    ApplyFrom(Out(m, "none", "empty"), actions, 1, now, conf)

-----------------------------------------------------------------------------
\* Query helpers.

\* Mutant: has_memory asks for an entry, not for an aspect key.
has_memory_entries(m) == \E i \in DOMAIN m : m[i].values # <<>>

\* self.memory != {}
has_memory(m) == m # <<>>

\* {aspect: list(values.keys()) for aspect, values in self.memory.items() if values}
get_memory_view(m) ==
    LET keep == { i \in DOMAIN m : m[i].values # <<>> }
    IN { <<m[i].aspect, [k \in DOMAIN m[i].values |-> m[i].values[k].value]>> : i \in keep }

-----------------------------------------------------------------------------
\* The inputs the two calls are driven with.

AspectInputs == {"cuisine", "mood"}
ValueInputs == {"Italian", "thai"}

\* Items of an extraction payload; "huge" is not a strength label.
PrefItems ==
    [aspect : {"cuisine"}, value : ValueInputs, strength : {"weak", "strong", "huge"}]
    \cup { [aspect |-> "mood", value |-> "Italian", strength |-> "strong"] }

\* A payload has at most one hard preference, of any strength, and at most
\* one soft preference, a strong one.
HardLists == {<<>>} \cup { <<p>> : p \in PrefItems }
SoftLists == {<<>>} \cup { <<p>> : p \in { q \in PrefItems : q.strength = "strong" } }

Payloads == [hard_preferences : HardLists, soft_preferences : SoftLists]

\* A record holding exactly the fields that are given (not None).
MkAct(action, aspect, value, target, strength) ==
    LET all == [action |-> action, aspect |-> aspect, value |-> value,
                target |-> target, strength |-> strength]
    IN [k \in { f \in DOMAIN all : all[f] # None } |-> all[k]]

\* Action records: the five documented tags and an undocumented one, over a
\* valid and an invalid aspect, with and without strength, merge records
\* with and without target, and three records that lack a required field.
ActionTags == {"add", "reinforce", "weaken", "merge", "ignore", "boost"}
TargetInputs == {None, "", "italian", "THAI"}
StrengthInputs == {None, "strong", "huge"}

Records ==
    { MkAct(a, s, v, None, g) :
        a \in ActionTags \ {"merge"}, s \in AspectInputs, v \in ValueInputs,
        g \in StrengthInputs }
    \cup { MkAct("merge", s, v, t, g) :
        s \in AspectInputs, v \in ValueInputs, t \in TargetInputs,
        g \in StrengthInputs }
    \cup { MkAct(None, "cuisine", "thai", None, None),
           MkAct("add", None, "thai", None, None),
           MkAct("add", "cuisine", "", None, None) }

\* The records that two-record calls are built from.
CoreRecords ==
    { r \in Records :
        /\ Get(r, "aspect") = "cuisine"
        /\ Get(r, "action") \in {"add", "reinforce", "weaken", "merge"}
        /\ Get(r, "strength") = None
        /\ Get(r, "action") = "merge" => ~Falsy(Get(r, "target")) }

ActionLists ==
    {<<>>} \cup { <<r>> : r \in Records }
           \cup { <<r1, r2>> : r1 \in CoreRecords, r2 \in CoreRecords }

-----------------------------------------------------------------------------
\* The state machine: one profile, calls made one after another.

Init ==
    /\ memory = <<>>
    /\ clock = 0
    /\ STRENGTH_TO_CONF \in StrengthMaps
    /\ result = [call |-> "init", error |-> "none", branch |-> "empty"]

ingest_extracted_preferences ==
    /\ clock < MaxCalls
    /\ \E extracted_prefs \in Payloads :
        LET out == Ingest(memory, extracted_prefs, clock + 1, STRENGTH_TO_CONF)
        IN /\ memory' = out.memory
           /\ result' = [call |-> "ingest_extracted_preferences",
                         error |-> out.error, branch |-> out.branch]
    /\ clock' = clock + 1
    /\ UNCHANGED STRENGTH_TO_CONF

apply_actions ==
    /\ clock < MaxCalls
    /\ \E actions \in ActionLists :
        LET out == Apply(memory, actions, clock + 1, STRENGTH_TO_CONF)
        IN /\ memory' = out.memory
           /\ result' = [call |-> "apply_actions",
                         error |-> out.error, branch |-> out.branch]
    /\ clock' = clock + 1
    /\ UNCHANGED STRENGTH_TO_CONF

Next == ingest_extracted_preferences \/ apply_actions

Spec == Init /\ [][Next]_vars

-----------------------------------------------------------------------------
\* A weaken run: after SetupCalls calls of either kind, apply_actions is only
\* called with one weaken record for the entry (cuisine, italian), at most
\* MaxWeakens times.  Nothing else touches the entry during the run, and
\* the run goes on while it can (weak fairness of the weaken call).

SetupCalls == 1
MaxWeakens == 7

\* The weaken records that name the entry, under any strength.
WeakenRecords ==
    { r \in Records :
        /\ Get(r, "action") = "weaken" /\ Get(r, "aspect") = "cuisine"
        /\ Lower(Get(r, "value")) = "italian" }

\* The setup is over, it raised nothing, and the entry is present.
InRun ==
    /\ clock >= SetupCalls
    /\ result.error = "none"
    /\ HasValue(memory, "cuisine", "italian")

setup == clock < SetupCalls /\ Next

\* The run can go on: another weaken call can be made.
RunOpen == InRun /\ clock < SetupCalls + MaxWeakens

weaken_again ==
    /\ RunOpen
    /\ \E r \in WeakenRecords :
        LET out == Apply(memory, <<r>>, clock + 1, STRENGTH_TO_CONF)
        IN /\ memory' = out.memory
           /\ result' = [call |-> "apply_actions",
                         error |-> out.error, branch |-> out.branch]
    /\ clock' = clock + 1
    /\ UNCHANGED STRENGTH_TO_CONF

WeakenNext == setup \/ weaken_again

\* While the run is open the only step possible is weaken_again, and it
\* advances clock: weak fairness of the weaken call, stated on the clock.
WeakenSpec ==
    Init /\ [][WeakenNext]_vars /\ WF_clock(RunOpen /\ clock' = clock + 1)

-----------------------------------------------------------------------------
\* Properties.  After(r) is what apply_actions([r]) would do in the current
\* state; Pairs(m) are the (aspect, value) keys that hold an entry.

After(r) == ApplyOne(memory, r, clock + 1, STRENGTH_TO_CONF)

\* Another call can be made in this state.
CanCall == clock < MaxCalls

Pairs(m) ==
    UNION { { <<m[i].aspect, m[i].values[k].value>> : k \in DOMAIN m[i].values } :
            i \in DOMAIN m }

Evidence(m, p) == EntryOf(m, p[1], p[2]).evidence
Confidence(m, p) == EntryOf(m, p[1], p[2]).confidence
LastSeen(m, p) == EntryOf(m, p[1], p[2]).last_seen

\* C1: apply_actions never raises: every call of apply_actions, whatever
\* records it is given, runs to completion without an error.
C1_ApplyActionsNeverRaises ==
    result.call = "apply_actions" => result.error = "none"

\* C2 (as claimed): over any sequence of ingest and apply_actions calls the
\* evidence of an entry that stays present never decreases from one state
\* to the next.
C2_EvidenceNeverDecreases ==
    [][\A p \in Pairs(memory) \cap Pairs(memory') :
          Evidence(memory', p) >= Evidence(memory, p)]_vars

\* C2 (amended): no single action record processed by apply_actions
\* decreases the evidence of an entry that is present before and after it.
C2_EvidenceMonotonePerAction ==
    CanCall =>
        \A r \in Records :
            LET after == After(r).memory
            IN \A p \in Pairs(memory) \cap Pairs(after) :
                  Evidence(after, p) >= Evidence(memory, p)

\* An apply_actions call has just raised the evidence of an entry, and a
\* further record would raise the evidence of an entry again.
C2_Witness ==
    /\ result.call = "apply_actions"
    /\ result.branch \in {"reinforce", "merge_absorb"}
    /\ \E p \in Pairs(memory) : Evidence(memory, p) >= 2
    /\ CanCall
    /\ \E r \in Records : \E p \in Pairs(memory) \cap Pairs(After(r).memory) :
          Evidence(After(r).memory, p) > Evidence(memory, p)

\* C3: a record whose aspect is not in the vocabulary, whatever its tag,
\* value, target and strength, leaves memory entirely unchanged (no entry
\* and no bucket created, changed or removed) and raises nothing.
C3_UnknownAspectLeavesMemory ==
    CanCall =>
        \A r \in Records :
            Get(r, "aspect") \notin ASPECTS =>
                After(r).memory = memory /\ After(r).error = "none"

\* A record naming the aspect "mood", outside the vocabulary, has just been
\* skipped while memory holds an entry for "mood" that ingestion created.
C3_Witness ==
    /\ result.call = "apply_actions"
    /\ result.branch = "skip_aspect"
    /\ HasValue(memory, "mood", "italian")
    /\ \E r \in Records : Get(r, "aspect") = "mood" /\ Get(r, "action") = "add"

\* The fields of a record as apply_actions reads them.
ActionOf(r) == Get(r, "action")
AspectOf(r) == Get(r, "aspect")
ValueOf(r) == Lower(Get(r, "value"))
TargetOf(r) == Lower(Get(r, "target"))
\* The record passes the two skip tests of lines 42-46.
Accepted(r) ==
    /\ ~Falsy(Get(r, "action")) /\ ~Falsy(Get(r, "aspect")) /\ ~Falsy(Get(r, "value"))
    /\ AspectOf(r) \in ASPECTS
\* Number of values the aspect holds (0 without a bucket).
ValueCount(m, a) == IF a \in AspectKeys(m) THEN Len(Bucket(m, a)) ELSE 0

C5_MergeTargetSurvives ==
    CanCall =>
        \A r \in Records :
            (Accepted(r) /\ ActionOf(r) = "merge") =>
                LET a == AspectOf(r)
                    after == After(r).memory
                IN /\ ValueCount(memory, a) - ValueCount(after, a) <= 1
                   /\ ValueCount(after, a) < ValueCount(memory, a)
                        => HasValue(after, a, TargetOf(r))

\* The strength a record resolves to, as claimed: 0.6 whenever the field is
\* missing or its label is not in the map.
ClaimedStrength(r) ==
    IF "strength" \in DOMAIN r /\ InMap(STRENGTH_TO_CONF, r.strength)
    THEN STRENGTH_TO_CONF[r.strength]
    ELSE DEFAULT_CONF

\* The strength a record resolves to, amended: a missing field stands for
\* the label medium.
AmendedStrength(r) ==
    IF "strength" \in DOMAIN r
    THEN IF InMap(STRENGTH_TO_CONF, r.strength)
         THEN STRENGTH_TO_CONF[r.strength] ELSE DEFAULT_CONF
    ELSE IF InMap(STRENGTH_TO_CONF, "medium")
         THEN STRENGTH_TO_CONF["medium"] ELSE DEFAULT_CONF

\* The confidence add gives a new entry and reinforce mixes into an old one
\* is the claimed (or else the amended) strength, for every accepted add /
\* reinforce record that takes effect.
UsesStrength(claimed) ==
    \A r \in Records :
        LET a == AspectOf(r)
            v == ValueOf(r)
            after == After(r).memory
            s(x) == IF claimed THEN ClaimedStrength(x) ELSE AmendedStrength(x)
        IN /\ (Accepted(r) /\ ActionOf(r) = "add" /\ ~HasValue(memory, a, v))
                => Confidence(after, <<a, v>>) = s(r)
           /\ (Accepted(r) /\ ActionOf(r) = "reinforce" /\ HasValue(memory, a, v))
                => RMul(Confidence(after, <<a, v>>), RInt(Evidence(memory, <<a, v>>) + 1))
                     = RAdd(RMul(Confidence(memory, <<a, v>>),
                                 RInt(Evidence(memory, <<a, v>>))), s(r))

\* C6 (as claimed): with no strength field, or a label outside the map, add
\* and reinforce use exactly 0.6, whatever the map assigns to medium.
C6_MissingStrengthIsDefault ==
    CanCall => UsesStrength(TRUE)

\* C6 (amended): a label outside the map resolves to exactly 0.6; a missing
\* strength field resolves to the map's confidence for medium (0.6 only if
\* the map has no medium).
C6_MissingStrengthIsMedium ==
    CanCall => UsesStrength(FALSE)

\* The map's medium is not 0.6, an add has just created an entry, and both an
\* add and a reinforce without strength field can take effect next.
C6_Witness ==
    /\ CanCall
    /\ STRENGTH_TO_CONF["medium"] # DEFAULT_CONF
    /\ result.branch = "add"
    /\ \E r \in Records :
          /\ Accepted(r) /\ ActionOf(r) = "add" /\ "strength" \notin DOMAIN r
          /\ ~HasValue(memory, AspectOf(r), ValueOf(r))
    /\ \E r \in Records :
          /\ Accepted(r) /\ ActionOf(r) = "reinforce" /\ "strength" \notin DOMAIN r
          /\ HasValue(memory, AspectOf(r), ValueOf(r))
    /\ \E r \in Records :
          /\ Accepted(r) /\ ActionOf(r) = "add" /\ Get(r, "strength") = "huge"
          /\ ~HasValue(memory, AspectOf(r), ValueOf(r))

\* C7: ingest_extracted_preferences raises nothing on an item whose strength
\* is not a key of the map (it falls back to the default confidence and
\* goes on with the items after it).
C7_IngestNeverRaises ==
    result.call = "ingest_extracted_preferences" => result.error = "none"

\* The items of a payload in the order ingestion visits them, and the items
\* it gets to write: those up to the first one whose strength is unknown.
ItemsOf(extracted_prefs) ==
    extracted_prefs.hard_preferences \o extracted_prefs.soft_preferences
Ingested(items) ==
    { i \in DOMAIN items :
        \A j \in 1..i : InMap(STRENGTH_TO_CONF, items[j].strength) }
KeyOfItem(item) == <<item.aspect, Lower(item.value)>>
\* The last ingested item that names the same (aspect, value) as item i.
LastFor(items, i) ==
    CHOOSE j \in Ingested(items) :
        /\ KeyOfItem(items[j]) = KeyOfItem(items[i])
        /\ \A k \in Ingested(items) :
              KeyOfItem(items[k]) = KeyOfItem(items[i]) => k <= j
\* Memory without its timestamps.
NoTimes(m) ==
    [i \in DOMAIN m |->
        [aspect |-> m[i].aspect,
         values |-> [k \in DOMAIN m[i].values |->
                        [value |-> m[i].values[k].value,
                         confidence |-> m[i].values[k].confidence,
                         evidence |-> m[i].values[k].evidence]]]]

\* C8: after ingest_extracted_preferences every ingested (aspect, lower-cased
\* value) entry has the confidence its (last) item's strength maps to and
\* evidence 1, whatever the entry held before; ingesting the same payload
\* again leaves every confidence and evidence as the first ingestion did.
C8_IngestOverwrites ==
    CanCall =>
        \A extracted_prefs \in Payloads :
            LET items == ItemsOf(extracted_prefs)
                once == Ingest(memory, extracted_prefs, clock + 1, STRENGTH_TO_CONF)
                twice == Ingest(once.memory, extracted_prefs, clock + 2, STRENGTH_TO_CONF)
            IN /\ \A i \in Ingested(items) :
                    LET p == KeyOfItem(items[i])
                    IN /\ HasValue(once.memory, p[1], p[2])
                       /\ Evidence(once.memory, p) = 1
                       /\ Confidence(once.memory, p)
                            = STRENGTH_TO_CONF[items[LastFor(items, i)].strength]
               /\ NoTimes(twice.memory) = NoTimes(once.memory)

\* An entry with evidence above 1 and another confidence than the payload
\* gives it is about to be ingested again.
C8_Witness ==
    /\ CanCall
    /\ \E extracted_prefs \in Payloads :
          LET items == ItemsOf(extracted_prefs)
          IN /\ Ingested(items) = DOMAIN items
             /\ \E i \in DOMAIN items :
                   LET p == KeyOfItem(items[i])
                   IN /\ HasValue(memory, p[1], p[2])
                      /\ Evidence(memory, p) >= 2
                      /\ Confidence(memory, p) # STRENGTH_TO_CONF[items[i].strength]

\* C9: an add for an (aspect, value) whose normalized value is present
\* leaves that entry's confidence, evidence and last_seen, and every other
\* entry, unchanged, whatever strength it carries.
C9_AddKeepsExisting ==
    CanCall =>
        \A r \in Records :
            ( /\ Accepted(r) /\ ActionOf(r) = "add"
              /\ HasValue(memory, AspectOf(r), ValueOf(r)) )
            => After(r).memory = memory /\ After(r).error = "none"

\* A present entry is named by an add whose strength resolves to another
\* confidence than the entry has, written under another spelling.
C9_Witness ==
    /\ CanCall
    /\ \E r \in Records :
          /\ Accepted(r) /\ ActionOf(r) = "add"
          /\ HasValue(memory, AspectOf(r), ValueOf(r))
          /\ Get(r, "value") # ValueOf(r)
          /\ ResolveStrength(STRENGTH_TO_CONF, r)
               # Confidence(memory, <<AspectOf(r), ValueOf(r)>>)
          /\ After(r).branch = "fallthrough"

\* Reinforce of a present entry (c, e) with resolved strength s: confidence
\* (c*e + s)/(e + 1), within [min(c, s), max(c, s)], evidence e + 1.
ReinforcePresent(r) ==
    LET p == <<AspectOf(r), ValueOf(r)>>
        c == Confidence(memory, p)
        e == Evidence(memory, p)
        s == ResolveStrength(STRENGTH_TO_CONF, r)
        after == After(r).memory
    IN /\ HasValue(after, p[1], p[2])
       /\ RMul(Confidence(after, p), RInt(e + 1)) = RAdd(RMul(c, RInt(e)), s)
       /\ RLeq(RMin(c, s), Confidence(after, p))
       /\ RLeq(Confidence(after, p), RMax(c, s))
       /\ Evidence(after, p) = e + 1

\* C10 (as claimed): reinforce of a present entry updates it as above;
\* reinforce of an absent value creates no entry and changes nothing.
C10_ReinforceAbsentChangesNothing ==
    CanCall =>
        \A r \in Records :
            (Accepted(r) /\ ActionOf(r) = "reinforce") =>
                IF HasValue(memory, AspectOf(r), ValueOf(r))
                THEN ReinforcePresent(r)
                ELSE After(r).memory = memory

\* C10 (amended): reinforce of a present entry updates it as above;
\* reinforce of an absent value creates no entry and changes no entry: the
\* only change it can make is an empty bucket for an aspect that had none.
C10_ReinforceUpdate ==
    CanCall =>
        \A r \in Records :
            (Accepted(r) /\ ActionOf(r) = "reinforce") =>
                IF HasValue(memory, AspectOf(r), ValueOf(r))
                THEN ReinforcePresent(r)
                ELSE After(r).memory = SetDefault(memory, AspectOf(r))

\* An entry with evidence above 1 can be reinforced with a strength other
\* than its confidence, and a reinforce of an absent value has just been
\* applied.
C10_Witness ==
    /\ CanCall
    /\ \E r \in Records :
          /\ Accepted(r) /\ ActionOf(r) = "reinforce"
          /\ HasValue(memory, AspectOf(r), ValueOf(r))
          /\ Evidence(memory, <<AspectOf(r), ValueOf(r)>>) >= 2
          /\ ResolveStrength(STRENGTH_TO_CONF, r)
               # Confidence(memory, <<AspectOf(r), ValueOf(r)>>)
    /\ \E r \in Records :
          /\ Accepted(r) /\ ActionOf(r) = "reinforce"
          /\ ~HasValue(memory, AspectOf(r), ValueOf(r))

\* C11: a weaken of a present entry with confidence c leaves it with
\* confidence max(0.05, 0.6 * c), which is at least 0.05 and, when c is
\* above 0.05, strictly below c; its evidence is unchanged.
C11_WeakenFloor ==
    \A r \in Records :
        LET p == <<AspectOf(r), ValueOf(r)>>
        IN ( /\ Accepted(r) /\ ActionOf(r) = "weaken"
             /\ HasValue(memory, p[1], p[2]) )
           => LET c == Confidence(memory, p)
                  after == After(r).memory
              IN /\ After(r).error = "none"
                 /\ HasValue(after, p[1], p[2])
                 /\ Confidence(after, p) = RMax(<<1, 20>>, RMul(<<3, 5>>, c))
                 /\ RLeq(<<1, 20>>, Confidence(after, p))
                 /\ RLess(<<1, 20>>, c) => RLess(Confidence(after, p), c)
                 /\ Evidence(after, p) = Evidence(memory, p)

\* During a weaken run the entry has evidence above 1 and a confidence
\* above 0.05 of which 0.6 times is below 0.05, so that the next weaken
\* stops at the floor.
C11_Witness ==
    /\ RunOpen /\ result.branch = "weaken"
    /\ Evidence(memory, <<"cuisine", "italian">>) >= 2
    /\ RLess(<<1, 20>>, Confidence(memory, <<"cuisine", "italian">>))
    /\ RLess(RMul(<<3, 5>>, Confidence(memory, <<"cuisine", "italian">>)), <<1, 20>>)

\* The entry of the weaken run is present with confidence exactly 0.05.
AtFloor ==
    /\ HasValue(memory, "cuisine", "italian")
    /\ Confidence(memory, <<"cuisine", "italian">>) = <<1, 20>>

\* C12: in a run that, from a present entry, only weakens that entry again
\* and again, the entry's confidence eventually is exactly 0.05, and from
\* then on it stays 0.05 under every further weaken.
C12_WeakenConverges == InRun ~> [] AtFloor

\* The setup left the entry well above the floor, six weakens later it is
\* at 0.05, and it can be weakened once more.
C12_Witness ==
    /\ RunOpen /\ AtFloor
    /\ result.branch = "weaken"
    /\ clock >= SetupCalls + 6
    /\ After(CHOOSE r \in WeakenRecords : TRUE).branch = "weaken"

\* C13: a merge whose target field is missing or empty, or whose target is
\* not a key of the aspect, raises nothing and creates, changes (last_seen
\* included) and deletes no entry: memory is as before, but for an empty
\* bucket for the record's aspect if that is valid and had none.
C13_MergeWithoutTargetDropped ==
    CanCall =>
        \A r \in Records :
            ( /\ ActionOf(r) = "merge"
              /\ \/ Falsy(Get(r, "target"))
                 \/ ~HasValue(memory, AspectOf(r), TargetOf(r)) )
            => /\ After(r).error = "none"
               /\ After(r).memory
                    = IF Accepted(r) THEN SetDefault(memory, AspectOf(r)) ELSE memory

\* A merge into an absent target has just been dropped; an entry is present
\* and can be named as the value of a merge with an absent target, with an
\* empty target and with no target field.
C13_Witness ==
    /\ CanCall
    /\ result.branch = "merge_target_absent"
    /\ \E r \in Records :
          /\ Accepted(r) /\ ActionOf(r) = "merge"
          /\ HasValue(memory, AspectOf(r), ValueOf(r))
          /\ ~Falsy(Get(r, "target"))
          /\ ~HasValue(memory, AspectOf(r), TargetOf(r))
          /\ After(r).branch = "merge_target_absent"
    /\ \E r \in Records :
          /\ Accepted(r) /\ ActionOf(r) = "merge"
          /\ HasValue(memory, AspectOf(r), ValueOf(r))
          /\ Get(r, "target") = ""
    /\ \E r \in Records :
          /\ Accepted(r) /\ ActionOf(r) = "merge"
          /\ HasValue(memory, AspectOf(r), ValueOf(r))
          /\ "target" \notin DOMAIN r

\* The keys a step creates and the keys it removes.
Created(before, after) == Pairs(after) \ Pairs(before)
Removed(before, after) == Pairs(before) \ Pairs(after)

\* C14: a key appears only when a record adds that (aspect, value) or an
\* ingest holds an item for it, and disappears only when a merge names it
\* as value and its target is a key of the aspect; reinforce, weaken,
\* ignore, unrecognized tags and skipped records create and remove nothing.
\* A step is one record of apply_actions or one ingest call.
C14_EntryLifecycle ==
    CanCall =>
        /\ \A r \in Records :
              LET after == After(r).memory
                  p == <<AspectOf(r), ValueOf(r)>>
              IN /\ Created(memory, after) # {}
                      => ActionOf(r) = "add" /\ Created(memory, after) = {p}
                 /\ Removed(memory, after) # {}
                      => /\ ActionOf(r) = "merge" /\ Removed(memory, after) = {p}
                         /\ ~Falsy(Get(r, "target"))
                         /\ HasValue(memory, p[1], TargetOf(r))
        /\ \A extracted_prefs \in Payloads :
              LET items == ItemsOf(extracted_prefs)
                  after == Ingest(memory, extracted_prefs, clock + 1,
                                  STRENGTH_TO_CONF).memory
              IN /\ Created(memory, after)
                      \subseteq { KeyOfItem(items[i]) : i \in DOMAIN items }
                 /\ Removed(memory, after) = {}

\* An add has just created the second entry of an aspect; a merge can
\* remove one of the two and an ingest can create a further key.
C14_Witness ==
    /\ CanCall
    /\ result.branch = "add"
    /\ \E r \in Records : /\ ActionOf(r) = "merge"
                          /\ Removed(memory, After(r).memory) # {}
                          /\ After(r).error = "none"
    /\ \E extracted_prefs \in Payloads :
          Created(memory, Ingest(memory, extracted_prefs, clock + 1,
                                 STRENGTH_TO_CONF).memory) # {}

\* Records that the skip tests of lines 42-46 drop.
SkippedRecords ==
    { r \in Records :
        /\ ~Accepted(r) /\ Get(r, "strength") = None
        /\ Get(r, "action") \in {None, "add"} }

\* The lists composition is checked on: a core or a skipped record followed
\* by a core record, and an add followed by a reinforce and a merge.
ComposeLists ==
    { <<r1, r2>> : r1 \in CoreRecords \cup SkippedRecords, r2 \in CoreRecords }
    \cup { <<r1, r2, r3>> :
              r1 \in { r \in CoreRecords : ActionOf(r) = "add" },
              r2 \in { r \in CoreRecords : ActionOf(r) = "reinforce" },
              r3 \in { r \in CoreRecords : ActionOf(r) = "merge" } }

\* apply_actions([a1]); ...; apply_actions([an]): one call per record, each
\* with its own timestamp, stopping at the first call that raises.
RECURSIVE ApplySeparately(_, _, _, _, _)
ApplySeparately(out, actions, i, now, conf) ==
    IF i > Len(actions) \/ out.error # "none"
    THEN out
    ELSE ApplySeparately(Apply(out.memory, <<actions[i]>>, now + i - 1, conf),
                         actions, i + 1, now, conf)

\* C15: when apply_actions(a1..an) raises nothing, it leaves the same
\* aspect keys, value keys in the same order, confidences and evidence as
\* the n calls apply_actions([a1]), ..., apply_actions([an]) made one after
\* another, which raise nothing either.
C15_SequentialComposition ==
    CanCall =>
        \A actions \in ComposeLists :
            LET once == Apply(memory, actions, clock + 1, STRENGTH_TO_CONF)
                each == ApplySeparately(Out(memory, "none", "empty"), actions, 1,
                                        clock + 1, STRENGTH_TO_CONF)
            IN once.error = "none"
                 => each.error = "none" /\ NoTimes(each.memory) = NoTimes(once.memory)

\* A call has left an entry; a list whose first record is skipped and whose
\* second record changes memory can be applied, and so can a list of three
\* records each of which changes an entry that an earlier one wrote.
C15_Witness ==
    /\ CanCall
    /\ Pairs(memory) # {}
    /\ \E actions \in ComposeLists :
          /\ Len(actions) = 2
          /\ After(actions[1]).branch \in {"skip_falsy", "skip_aspect"}
          /\ NoTimes(Apply(memory, actions, clock + 1, STRENGTH_TO_CONF).memory)
                # NoTimes(memory)
    /\ \E actions \in ComposeLists :
          /\ Len(actions) = 3
          /\ ActionOf(actions[1]) = "add" /\ After(actions[1]).branch = "add"
          /\ ActionOf(actions[2]) = "reinforce"
          /\ ActionOf(actions[3]) = "merge"
          /\ Apply(memory, actions, clock + 1, STRENGTH_TO_CONF).branch = "merge_absorb"
          /\ Apply(memory, actions, clock + 1, STRENGTH_TO_CONF).error = "none"

\* Records that are no-ops on an empty profile although their aspect is
\* valid: ignore, an unrecognized tag, reinforce and weaken.
NoOpOnEmpty(r) ==
    Accepted(r) /\ ActionOf(r) \in {"ignore", "boost", "reinforce", "weaken"}

\* C16: has_memory is true exactly when memory has an aspect key, and
\* get_memory_view lists exactly the aspects whose mapping is non-empty,
\* each with its value keys in order; on an empty profile a no-op record
\* with a valid aspect leaves has_memory true and the view empty; and no
\* record and no ingest turns has_memory from true to false.
C16_HasMemoryAndView ==
    /\ has_memory(memory) <=> AspectKeys(memory) # {}
    /\ get_memory_view(memory)
         = { <<a, [k \in 1..ValueCount(memory, a) |-> Bucket(memory, a)[k].value]>> :
               a \in { b \in AspectKeys(memory) : ValueCount(memory, b) > 0 } }
    /\ (CanCall /\ memory = <<>>) =>
          \A r \in Records :
              NoOpOnEmpty(r) =>
                  /\ has_memory(After(r).memory)
                  /\ get_memory_view(After(r).memory) = {}
    /\ (CanCall /\ has_memory(memory)) =>
          /\ \A r \in Records : has_memory(After(r).memory)
          /\ \A extracted_prefs \in Payloads :
                has_memory(Ingest(memory, extracted_prefs, clock + 1,
                                  STRENGTH_TO_CONF).memory)

\* A no-op record with a valid aspect has just been applied to the empty
\* profile: has_memory is true, the view is empty, and a further call can
\* be made.
C16_Witness ==
    /\ CanCall
    /\ result.call = "apply_actions" /\ result.branch = "fallthrough"
    /\ has_memory(memory)
    /\ get_memory_view(memory) = {}
    /\ Pairs(memory) = {}

\* A confidence in (0, 1].
InUnit(c) == RLess(RInt(0), c) /\ RLeq(c, RInt(1))

\* C17: when every confidence of the strength map and the default 0.6 lie
\* in (0, 1], every entry of every reachable memory has a confidence in
\* (0, 1] and an evidence that is an integer of at least 1.
C17_ConfidenceAndEvidenceBounds ==
    ( /\ \A k \in DOMAIN STRENGTH_TO_CONF : InUnit(STRENGTH_TO_CONF[k])
      /\ InUnit(DEFAULT_CONF) )
    => \A p \in Pairs(memory) :
          /\ InUnit(Confidence(memory, p))
          /\ Evidence(memory, p) \in Nat
          /\ Evidence(memory, p) >= 1

\* A weaken has just left an entry that was reinforced before (evidence
\* above 1) with a confidence below every confidence of the strength map.
C17_Witness ==
    /\ result.branch = "weaken"
    /\ \E p \in Pairs(memory) :
          /\ Evidence(memory, p) >= 2
          /\ \A k \in DOMAIN STRENGTH_TO_CONF :
                RLess(Confidence(memory, p), STRENGTH_TO_CONF[k])

\* C18: a merge record never changes the confidence of an entry that is
\* present before and after it; in particular the target keeps the
\* confidence it had.
C18_MergeKeepsConfidence ==
    CanCall =>
        \A r \in Records :
            (Accepted(r) /\ ActionOf(r) = "merge") =>
                LET after == After(r).memory
                IN \A p \in Pairs(memory) \cap Pairs(after) :
                      Confidence(after, p) = Confidence(memory, p)

\* Two records that differ at most in their strength field.
SameButStrength(r1, r2) ==
    /\ DOMAIN r1 \ {"strength"} = DOMAIN r2 \ {"strength"}
    /\ \A k \in DOMAIN r1 \ {"strength"} : r1[k] = r2[k]

\* C19: of two records that differ only in strength, applied to the same
\* memory, the results (keys, confidence, evidence) differ only if the tag
\* is reinforce or weaken; and a weaken of a present entry above the floor
\* gives different results for strengths that resolve differently.
C19_StrengthOnlyReinforceWeaken ==
    CanCall =>
        \A r1 \in Records : \A r2 \in Records :
            SameButStrength(r1, r2) =>
                /\ NoTimes(After(r1).memory) # NoTimes(After(r2).memory)
                      => ActionOf(r1) \in {"reinforce", "weaken"}
                /\ ( /\ Accepted(r1) /\ ActionOf(r1) = "weaken"
                     /\ HasValue(memory, AspectOf(r1), ValueOf(r1))
                     /\ RLess(WEAKEN_FLOOR,
                              Confidence(memory, <<AspectOf(r1), ValueOf(r1)>>))
                     /\ ResolveStrength(STRENGTH_TO_CONF, r1)
                          # ResolveStrength(STRENGTH_TO_CONF, r2) )
                   => NoTimes(After(r1).memory) # NoTimes(After(r2).memory)

\* The record is a merge of an absent value into a present target.
MergeOfAbsentValue(r) ==
    /\ Accepted(r) /\ ActionOf(r) = "merge" /\ ~Falsy(Get(r, "target"))
    /\ HasValue(memory, AspectOf(r), TargetOf(r))
    /\ ~HasValue(memory, AspectOf(r), ValueOf(r))

\* C20: a merge whose target is a key of the aspect and whose value is not
\* creates no entry for the value, leaves the confidence and evidence of
\* the target and every other entry as they were, and changes one
\* last_seen only: the target's, to the timestamp of the call.
C20_MergeAbsentValueTouchesTarget ==
    CanCall =>
        \A r \in Records :
            MergeOfAbsentValue(r) =>
                LET after == After(r).memory
                    t == <<AspectOf(r), TargetOf(r)>>
                IN /\ After(r).error = "none"
                   /\ ~HasValue(after, AspectOf(r), ValueOf(r))
                   /\ NoTimes(after) = NoTimes(memory)
                   /\ LastSeen(after, t) = clock + 1
                   /\ \A p \in Pairs(memory) \ {t} :
                         LastSeen(after, p) = LastSeen(memory, p)

\* A merge of an absent value into a present target can be applied while
\* memory holds a further entry, under another aspect key.
C20_Witness ==
    /\ CanCall
    /\ \E r \in Records :
          /\ MergeOfAbsentValue(r)
          /\ After(r).branch = "merge_touch"
          /\ LastSeen(memory, <<AspectOf(r), TargetOf(r)>>) < clock + 1
          /\ \E p \in Pairs(memory) : p[1] # AspectOf(r)

====
